---- MODULE Spec2Model ----
(***************************************************************************)
(* A model of the embedded-script sandbox of phat-function-cli:            *)
(*   - src/lib/sandbox.ts          createSandbox, run, the HTTP worker     *)
(*   - src/lib/sync-request/index.ts  wrap*, wrapPromise, timers           *)
(*   - src/lib/runQuickJs.ts       runQuickJs and the pink namespace       *)
(*                                                                         *)
(* The host is one JavaScript thread: a host function called by a script,  *)
(* a timer callback and a promise continuation each run to completion, so  *)
(* each of them is one action.  The script is the environment: while a     *)
(* Context evaluates (pc = "eval") it may call any injected host function. *)
(***************************************************************************)
EXTENDS Integers, Sequences, FiniteSets, TLC

\* ------------------------------------------------------------------------
\* Bounds
\* ------------------------------------------------------------------------
\* number of host timer ids the host hands out (setTimeout and setInterval)
MaxTimers == 2
\* number of bridged promises created over a behaviour
MaxPromises == 2
\* number of times one interval is let fire in the sandbox specification
MaxFirings == 2
\* number of dispose() calls the model follows on one held callback handle
MaxDisposeCalls == 2

\* ------------------------------------------------------------------------
\* Sandbox state (sandbox.ts createSandbox, sync-request/index.ts)
\* ------------------------------------------------------------------------
Sandboxes == {"A", "B"}
TimerIds == 1..MaxTimers
PromiseIds == 1..MaxPromises
\* what a script may pass as a timer id: 0 is never issued by the host
ScriptIds == 0..MaxTimers

VARIABLES
  vmAlive,                 \* [Sandboxes -> BOOLEAN]: the Context is not disposed
  asyncProcessesRunning,   \* [Sandboxes -> Nat]: sandbox.ts:19
  errorState,              \* [Sandboxes -> BOOLEAN]: sandbox.ts:16
  lastError,               \* [Sandboxes -> STRING]: sandbox.ts:17
  pc,                      \* [Sandboxes -> {"idle","eval"}]: inside run()'s evalCode
  runResult,               \* [Sandboxes -> {"none","true","false"}]: last return of run()
  timers,                  \* [TimerIds -> record]: the host's timers and the held handle
  timeoutFunctionHandles,  \* [Sandboxes -> [TableKeys -> {"undefined","null","handle"}]]
  intervalFunctionHandles, \* [Sandboxes -> [TableKeys -> {"undefined","null","handle"}]]
  nextTimerId,             \* the next id the host's setTimeout/setInterval returns
  promiseId,               \* sync-request/index.ts:19 (module scope)
  openPromises,            \* sync-request/index.ts:20 (module scope)
  promises,                \* [PromiseIds -> record]: host promise and vm deferred
  pendingJobs,             \* [Sandboxes -> BOOLEAN]: the interpreter job queue is not empty
  lastCall,                \* outcome of the last host function the script called
  afterDispose,            \* [Sandboxes -> BOOLEAN]: a host callback entered the disposed Context
  hostValue,               \* the host value handed to wrap
  wrapped,                 \* what wrap returned for it
  dumped,                  \* what dumping that handle gives back
  requireLookup,           \* the host's table, the list of its own properties
  requireResult,           \* what the script's last require(name) call produced
  rqPc,                    \* [Calls -> {"idle","awaiting","eval","returned","threw"}]
  rqRuntime,               \* [Calls -> 0..MaxRuns]: the runtime (and its Context and arena) of the call
  resources,               \* [RuntimeIds -> record]: calls that used it, dispose() calls on each part
  nextRuntime,             \* the runtime QuickJS.newRuntime() creates next
  started,                 \* runQuickJs calls made so far
  rqResult,                \* [Calls -> record]: what the call returned or threw
  pinkResult,              \* outcome of the last pink function the script called
  scriptOutput,            \* the global scriptOutput of the evaluating Context
  silent,                  \* [Sandboxes -> BOOLEAN]: options.silent of createSandbox
  rqSilent,                \* [Calls -> BOOLEAN]: options.silent the caller hands to runQuickJs
  hostLog,                 \* who has written to the host console: <<writer, channel>>
  timeoutIDIsObject,       \* the host's setTimeout/setInterval return an object, not a number
  injected,                \* [Sandboxes -> set]: the handles createSandbox made, each disposed or not
  blocknum,                \* the block number phactory.getInfo reports
  wait                     \* the waitPRuntimeFinalized call: position, inputs, last poll

sandboxVars == <<vmAlive, asyncProcessesRunning, errorState, lastError, pc,
                 runResult, timers, timeoutFunctionHandles,
                 intervalFunctionHandles, nextTimerId, promiseId, openPromises,
                 promises, pendingJobs, lastCall, afterDispose>>

wrapVars == <<hostValue, wrapped, dumped>>

requireVars == <<requireLookup, requireResult>>

rqVars == <<rqPc, rqRuntime, resources, nextRuntime, started, rqResult,
            pinkResult, scriptOutput>>

consoleVars == <<silent, rqSilent, hostLog>>

\* the platform the host runs on; no action changes it
platformVars == <<timeoutIDIsObject>>

\* what createSandbox left behind when it returned; no action changes it
constructionVars == <<injected>>

\* waitPRuntimeFinalized and the chain it polls: utils.ts:12-42
waitVars == <<blocknum, wait>>

\* what an action of one part of the model leaves alone
notSandbox == <<wrapVars, requireVars, rqVars, consoleVars, platformVars, constructionVars, waitVars>>
notWrap == <<sandboxVars, requireVars, rqVars, consoleVars, platformVars, constructionVars, waitVars>>
notRunQuickJs == <<sandboxVars, wrapVars, requireVars, consoleVars, platformVars, constructionVars, waitVars>>

\* The key of a handle table is timeoutID.toString() (sync-request/index.ts:
\* 203, 212, 238, 253).  Where the host's setTimeout returns a number the key
\* is that number; where it returns a timer object without a toString of its
\* own (Node, which package.json requires) the key is "[object Object]" for
\* every timer.  ObjectKey stands for that one key: no number a script passes
\* has it as its string.
ObjectKey == 0
TableKeys == TimerIds \cup {ObjectKey}
TimerKey(id) == IF timeoutIDIsObject THEN ObjectKey ELSE id

NoTimer == [kind |-> "none", owner |-> "-", scheduled |-> FALSE, calls |-> 0,
            disposeCalls |-> 0, repetitions |-> 0]

NoPromise == [owner |-> "-", host |-> "none", vm |-> "none", forced |-> FALSE,
              thenRan |-> FALSE, catchRan |-> FALSE, settledCb |-> "none",
              ends |-> 0, settleCalls |-> 0, lateSettles |-> 0, lateWraps |-> 0]

NoCall == [fn |-> "none", threw |-> FALSE]

SandboxInit ==
  /\ vmAlive = [s \in Sandboxes |-> TRUE]
  /\ asyncProcessesRunning = [s \in Sandboxes |-> 0]
  /\ errorState = [s \in Sandboxes |-> FALSE]
  /\ lastError = [s \in Sandboxes |-> ""]
  /\ pc = [s \in Sandboxes |-> "idle"]
  /\ runResult = [s \in Sandboxes |-> "none"]
  /\ timers = [i \in TimerIds |-> NoTimer]
  /\ timeoutFunctionHandles = [s \in Sandboxes |-> [k \in TableKeys |-> "undefined"]]
  /\ intervalFunctionHandles = [s \in Sandboxes |-> [k \in TableKeys |-> "undefined"]]
  /\ timeoutIDIsObject \in BOOLEAN
  /\ nextTimerId = 1
  /\ promiseId = 0
  /\ openPromises = [p \in PromiseIds |-> "undefined"]
  /\ promises = [p \in PromiseIds |-> NoPromise]
  /\ pendingJobs = [s \in Sandboxes |-> FALSE]
  /\ lastCall = NoCall
  /\ afterDispose = [s \in Sandboxes |-> FALSE]

\* sandbox.ts:21-23
beginAsyncProcess(s) == [asyncProcessesRunning EXCEPT ![s] = @ + 1]

\* sandbox.ts:25-29
endAsyncProcess(cnt, s) == [cnt EXCEPT ![s] = IF @ > 0 THEN @ - 1 ELSE @]

\* sandbox.ts:31-33
isAsyncProcessRunning(s) == asyncProcessesRunning[s] > 0

\* the host thread is inside some Context's evalCode
Evaluating == \E s \in Sandboxes : pc[s] = "eval"

\* a promise continuation (microtask) is queued on the host
MicrotaskQueued ==
  \E p \in PromiseIds :
    \/ promises[p].settledCb = "queued"
    \/ promises[p].host = "resolved" /\ ~promises[p].thenRan
    \/ promises[p].host = "rejected" /\ ~promises[p].catchRan

\* table[id.toString()] for the number id a script passes: an id the table
\* never saw reads undefined
HandleAt(table, id) == IF id \in TimerIds THEN table[id] ELSE "undefined"

\* ------------------------------------------------------------------------
\* run(compiled): sandbox.ts:125-157.  RunBegin is the part up to the entry
\* into evalCode, RunEnd the part after evalCode has produced its result.
\* ------------------------------------------------------------------------
\* run() that does not reset errorState before it enters evalCode
RunBeginWithoutReset(s) ==
  /\ vmAlive[s] /\ ~Evaluating /\ ~MicrotaskQueued
  /\ pc' = [pc EXCEPT ![s] = "eval"]
  /\ lastCall' = NoCall
  /\ UNCHANGED <<vmAlive, asyncProcessesRunning, errorState, lastError, runResult,
                 timers, timeoutFunctionHandles, intervalFunctionHandles,
                 nextTimerId, promiseId, openPromises, promises, pendingJobs,
                 afterDispose>>
  /\ UNCHANGED notSandbox


RunBegin(s) ==
  /\ vmAlive[s] /\ ~Evaluating /\ ~MicrotaskQueued
  /\ errorState' = [errorState EXCEPT ![s] = FALSE]
  /\ pc' = [pc EXCEPT ![s] = "eval"]
  /\ lastCall' = NoCall
  /\ UNCHANGED <<vmAlive, asyncProcessesRunning, lastError, runResult, timers,
                 timeoutFunctionHandles, intervalFunctionHandles, nextTimerId,
                 promiseId, openPromises, promises, pendingJobs, afterDispose>>
  /\ UNCHANGED notSandbox

\* the value run() returns: false on result.error, else !errorState
RunReturnValue(s, outcome) ==
  IF outcome = "error" THEN "false"
  ELSE IF errorState[s] THEN "false" ELSE "true"

\* run() prints the program (and the error) with the host's console.log when
\* evaluation failed or errorState is set: sandbox.ts:130-149
RunEnd(s, outcome) ==
  /\ pc[s] = "eval"
  /\ pc' = [pc EXCEPT ![s] = "idle"]
  /\ runResult' = [runResult EXCEPT ![s] = RunReturnValue(s, outcome)]
  /\ hostLog' = IF outcome = "error" \/ errorState[s]
                THEN hostLog \cup {<<s, "run">>} ELSE hostLog
  /\ UNCHANGED <<vmAlive, asyncProcessesRunning, errorState, lastError, timers,
                 timeoutFunctionHandles, intervalFunctionHandles, nextTimerId,
                 promiseId, openPromises, promises, pendingJobs, lastCall,
                 afterDispose>>
  /\ UNCHANGED <<wrapVars, requireVars, rqVars, silent, rqSilent, platformVars, constructionVars, waitVars>>

\* run(compiled) on a Context that is disposed: vm.evalCode raises a host
\* exception after errorState was reset, the catch branch logs it and run
\* returns false: sandbox.ts:126-128, 152-156
RunOnDisposed(s) ==
  /\ ~vmAlive[s] /\ ~Evaluating /\ ~MicrotaskQueued
  /\ errorState' = [errorState EXCEPT ![s] = FALSE]
  /\ runResult' = [runResult EXCEPT ![s] = "false"]
  /\ hostLog' = hostLog \cup {<<s, "run">>}
  /\ lastCall' = NoCall
  /\ UNCHANGED <<vmAlive, asyncProcessesRunning, lastError, pc, timers,
                 timeoutFunctionHandles, intervalFunctionHandles, nextTimerId,
                 promiseId, openPromises, promises, pendingJobs, afterDispose>>
  /\ UNCHANGED <<wrapVars, requireVars, rqVars, silent, rqSilent, platformVars, constructionVars, waitVars>>


\* the console methods of a sandbox: sandbox.ts:38-67 and 90-109.  With
\* options.silent one empty function is bound to all five names.
ConsoleMethods == {"log", "info", "warn", "debug", "error"}

\* console.log, console.info, console.warn, console.debug: sandbox.ts:38-56
ConsoleLog(s, method) ==
  /\ pc[s] = "eval" /\ method \in ConsoleMethods \ {"error"}
  /\ hostLog' = IF silent[s] THEN hostLog ELSE hostLog \cup {<<s, "console">>}
  /\ lastCall' = [fn |-> "console", threw |-> FALSE, method |-> method]
  /\ UNCHANGED <<vmAlive, asyncProcessesRunning, errorState, lastError, pc,
                 runResult, timers, timeoutFunctionHandles,
                 intervalFunctionHandles, nextTimerId, promiseId, openPromises,
                 promises, pendingJobs, afterDispose>>
  /\ UNCHANGED <<wrapVars, requireVars, rqVars, silent, rqSilent, platformVars, constructionVars, waitVars>>

\* console.error that writes and sets the flag whatever options.silent says
ConsoleErrorLoud(s) ==
  /\ pc[s] = "eval"
  /\ hostLog' = hostLog \cup {<<s, "console">>}
  /\ lastError' = [lastError EXCEPT ![s] = "[args]"]
  /\ errorState' = [errorState EXCEPT ![s] = TRUE]
  /\ lastCall' = [fn |-> "console", threw |-> FALSE, method |-> "error"]
  /\ UNCHANGED <<vmAlive, asyncProcessesRunning, pc, runResult, timers,
                 timeoutFunctionHandles, intervalFunctionHandles, nextTimerId,
                 promiseId, openPromises, promises, pendingJobs, afterDispose>>
  /\ UNCHANGED <<wrapVars, requireVars, rqVars, silent, rqSilent, platformVars, constructionVars, waitVars>>


\* console.error: sandbox.ts:58-67.  JSON.stringify raises for an argument
\* it cannot serialise (a big integer): the catch branch logs and the flag
\* and the message stay as they are.
ConsoleError(s) ==
  /\ pc[s] = "eval"
  /\ IF silent[s]
     THEN UNCHANGED <<lastError, errorState, hostLog>>
     ELSE \E stringifies \in BOOLEAN :
            /\ hostLog' = hostLog \cup {<<s, "console">>}
            /\ lastError' = IF stringifies
                            THEN [lastError EXCEPT ![s] = "[args]"] ELSE lastError
            /\ errorState' = IF stringifies
                             THEN [errorState EXCEPT ![s] = TRUE] ELSE errorState
  /\ lastCall' = [fn |-> "console", threw |-> FALSE, method |-> "error"]
  /\ UNCHANGED <<vmAlive, asyncProcessesRunning, pc, runResult, timers,
                 timeoutFunctionHandles, intervalFunctionHandles, nextTimerId,
                 promiseId, openPromises, promises, pendingJobs, afterDispose>>
  /\ UNCHANGED <<wrapVars, requireVars, rqVars, silent, rqSilent, platformVars, constructionVars, waitVars>>

\* The script creates a promise job of its own during the top-level
\* evaluation (Promise.resolve().then(f)): run() returns after evalCode
\* without running the pending jobs, sandbox.ts:128-151, so the job waits for
\* the next executePendingJobs call of the host.
ScriptQueuesJob(s) ==
  /\ pc[s] = "eval" /\ ~pendingJobs[s]
  /\ pendingJobs' = [pendingJobs EXCEPT ![s] = TRUE]
  /\ lastCall' = NoCall
  /\ UNCHANGED <<vmAlive, asyncProcessesRunning, errorState, lastError, pc,
                 runResult, timers, timeoutFunctionHandles,
                 intervalFunctionHandles, nextTimerId, promiseId, openPromises,
                 promises, afterDispose>>
  /\ UNCHANGED notSandbox


\* The caller disposes the Context that createSandbox returned (vm.dispose()).
\* Nothing in the sandbox cancels host timers or settles promises here.
DisposeContext(s) ==
  /\ vmAlive[s] /\ ~Evaluating
  /\ vmAlive' = [vmAlive EXCEPT ![s] = FALSE]
  /\ UNCHANGED <<asyncProcessesRunning, errorState, lastError, pc, runResult,
                 timers, timeoutFunctionHandles, intervalFunctionHandles,
                 nextTimerId, promiseId, openPromises, promises, pendingJobs, lastCall,
                 afterDispose>>
  /\ UNCHANGED notSandbox

\* ------------------------------------------------------------------------
\* Timers: injectTimingFunctions, sync-request/index.ts:182-290.
\* The key of the handle table is timeoutID.toString(): see TimerKey.
\* The delay only decides when the host fires the callback, which the model
\* leaves open, so the delay and its cap are not state.
\* ------------------------------------------------------------------------
\* a _setTimeout that runs the pending jobs before it returns to the script
SetTimeoutPumping(s) ==
  /\ pc[s] = "eval" /\ nextTimerId <= MaxTimers
  /\ LET id == nextTimerId IN
     /\ asyncProcessesRunning' = beginAsyncProcess(s)
     /\ timers' = [timers EXCEPT ![id] =
           [NoTimer EXCEPT !.kind = "timeout", !.owner = s, !.scheduled = TRUE]]
     /\ timeoutFunctionHandles' = [timeoutFunctionHandles EXCEPT ![s][TimerKey(id)] = "handle"]
     /\ nextTimerId' = id + 1
     /\ lastCall' = [fn |-> "setTimeout", threw |-> FALSE]
  /\ pendingJobs' = [pendingJobs EXCEPT ![s] = FALSE]
  /\ UNCHANGED <<vmAlive, errorState, lastError, pc, runResult,
                 intervalFunctionHandles, promiseId, openPromises, promises,
                 afterDispose>>
  /\ UNCHANGED notSandbox


\* _setTimeout: sync-request/index.ts:189-216
SetTimeout(s) ==
  /\ pc[s] = "eval" /\ nextTimerId <= MaxTimers
  /\ LET id == nextTimerId IN
     /\ asyncProcessesRunning' = beginAsyncProcess(s)
     /\ timers' = [timers EXCEPT ![id] =
           [NoTimer EXCEPT !.kind = "timeout", !.owner = s, !.scheduled = TRUE]]
     /\ timeoutFunctionHandles' = [timeoutFunctionHandles EXCEPT ![s][TimerKey(id)] = "handle"]
     /\ nextTimerId' = id + 1
     /\ lastCall' = [fn |-> "setTimeout", threw |-> FALSE]
  /\ UNCHANGED <<vmAlive, errorState, lastError, pc, runResult,
                 intervalFunctionHandles, promiseId, openPromises, promises, pendingJobs,
                 afterDispose>>
  /\ UNCHANGED notSandbox

\* the host callback of setTimeout: sync-request/index.ts:202-211
\* On a disposed Context vm.callFunction raises a use-after-free in the host
\* callback: the lines after it are not reached.
TimeoutFires(id) ==
  /\ timers[id].kind = "timeout" /\ timers[id].scheduled
  /\ ~Evaluating /\ ~MicrotaskQueued
  /\ LET s == timers[id].owner IN
     /\ timeoutFunctionHandles' = [timeoutFunctionHandles EXCEPT ![s][TimerKey(id)] = "null"]
     /\ asyncProcessesRunning' = endAsyncProcess(asyncProcessesRunning, s)
     /\ IF vmAlive[s]
        THEN /\ timers' = [timers EXCEPT ![id].scheduled = FALSE,
                                         ![id].calls = @ + 1,
                                         ![id].disposeCalls = @ + 1]
             /\ pendingJobs' = [pendingJobs EXCEPT ![s] = FALSE]
             /\ UNCHANGED afterDispose
        ELSE /\ timers' = [timers EXCEPT ![id].scheduled = FALSE]
             /\ afterDispose' = [afterDispose EXCEPT ![s] = TRUE]
             /\ UNCHANGED pendingJobs
  /\ UNCHANGED <<vmAlive, errorState, lastError, pc, runResult,
                 intervalFunctionHandles, nextTimerId, promiseId, openPromises,
                 promises, lastCall>>
  /\ UNCHANGED notSandbox

\* _clearTimeout: sync-request/index.ts:261-272
\* Disposing a handle that is already disposed raises in the host function,
\* which the script sees as a thrown error; clearTimeout(host) is not reached.
ClearTimeout(s, id) ==
  /\ pc[s] = "eval"
  /\ id \in TimerIds => timers[id].disposeCalls < MaxDisposeCalls
  /\ LET timeoutHandle == HandleAt(timeoutFunctionHandles[s], id) IN
     IF timeoutHandle = "handle"
     THEN /\ asyncProcessesRunning' = endAsyncProcess(asyncProcessesRunning, s)
          /\ IF timers[id].disposeCalls = 0
             THEN /\ timers' = [timers EXCEPT ![id].disposeCalls = @ + 1,
                                              ![id].scheduled = FALSE]
                  /\ lastCall' = [fn |-> "clearTimeout", threw |-> FALSE]
             ELSE /\ timers' = [timers EXCEPT ![id].disposeCalls = @ + 1]
                  /\ lastCall' = [fn |-> "clearTimeout", threw |-> TRUE]
     ELSE /\ lastCall' = [fn |-> "clearTimeout", threw |-> FALSE]
          /\ UNCHANGED <<asyncProcessesRunning, timers>>
  /\ UNCHANGED <<vmAlive, errorState, lastError, pc, runResult,
                 timeoutFunctionHandles, intervalFunctionHandles, nextTimerId,
                 promiseId, openPromises, promises, pendingJobs, afterDispose>>
  /\ UNCHANGED notSandbox

\* _setInterval: sync-request/index.ts:221-257
SetInterval(s) ==
  /\ pc[s] = "eval" /\ nextTimerId <= MaxTimers
  /\ LET id == nextTimerId IN
     /\ asyncProcessesRunning' = beginAsyncProcess(s)
     /\ timers' = [timers EXCEPT ![id] =
           [NoTimer EXCEPT !.kind = "interval", !.owner = s, !.scheduled = TRUE]]
     /\ intervalFunctionHandles' = [intervalFunctionHandles EXCEPT ![s][TimerKey(id)] = "handle"]
     /\ nextTimerId' = id + 1
     /\ lastCall' = [fn |-> "setInterval", threw |-> FALSE]
  /\ UNCHANGED <<vmAlive, errorState, lastError, pc, runResult,
                 timeoutFunctionHandles, promiseId, openPromises, promises,
                 pendingJobs, afterDispose>>
  /\ UNCHANGED notSandbox

\* sync-request/index.ts:233
maxRepetitions == 99

\* the host callback of setInterval: sync-request/index.ts:236-252
\* cap bounds the firings of one interval that a specification explores.
IntervalFiresUpTo(id, cap) ==
  /\ timers[id].kind = "interval" /\ timers[id].scheduled
  /\ timers[id].repetitions < cap
  /\ ~Evaluating /\ ~MicrotaskQueued
  /\ LET s == timers[id].owner
         reps == timers[id].repetitions + 1 IN
     /\ intervalFunctionHandles' = [intervalFunctionHandles EXCEPT ![s][TimerKey(id)] = "null"]
     /\ IF vmAlive[s]
        THEN /\ IF reps > maxRepetitions
                THEN /\ timers' = [timers EXCEPT ![id].repetitions = reps,
                                                 ![id].calls = @ + 1,
                                                 ![id].scheduled = FALSE]
                     /\ asyncProcessesRunning' = endAsyncProcess(asyncProcessesRunning, s)
                ELSE /\ timers' = [timers EXCEPT ![id].repetitions = reps,
                                                 ![id].calls = @ + 1]
                     /\ UNCHANGED asyncProcessesRunning
             /\ pendingJobs' = [pendingJobs EXCEPT ![s] = FALSE]
             /\ UNCHANGED afterDispose
        ELSE /\ timers' = [timers EXCEPT ![id].repetitions = reps]
             /\ afterDispose' = [afterDispose EXCEPT ![s] = TRUE]
             /\ UNCHANGED <<asyncProcessesRunning, pendingJobs>>
  /\ UNCHANGED <<vmAlive, errorState, lastError, pc, runResult,
                 timeoutFunctionHandles, nextTimerId, promiseId, openPromises,
                 promises, lastCall>>
  /\ UNCHANGED notSandbox

IntervalFires(id) == IntervalFiresUpTo(id, MaxFirings)

\* _clearInterval: sync-request/index.ts:276-287
\* The guard tests the id, not the handle: with a null or undefined handle
\* intervalHandle.dispose() raises a TypeError after cbRemovedTimer() ran.
ClearInterval(s, id) ==
  /\ pc[s] = "eval"
  /\ id \in TimerIds => timers[id].disposeCalls < MaxDisposeCalls
  /\ LET intervalHandle == HandleAt(intervalFunctionHandles[s], id) IN
     IF id # 0
     THEN /\ asyncProcessesRunning' = endAsyncProcess(asyncProcessesRunning, s)
          /\ IF intervalHandle = "handle"
             THEN IF timers[id].disposeCalls = 0
                  THEN /\ timers' = [timers EXCEPT ![id].disposeCalls = @ + 1,
                                                   ![id].scheduled = FALSE]
                       /\ lastCall' = [fn |-> "clearInterval", threw |-> FALSE]
                  ELSE /\ timers' = [timers EXCEPT ![id].disposeCalls = @ + 1]
                       /\ lastCall' = [fn |-> "clearInterval", threw |-> TRUE]
             ELSE /\ UNCHANGED timers
                  /\ lastCall' = [fn |-> "clearInterval", threw |-> TRUE]
     ELSE /\ lastCall' = [fn |-> "clearInterval", threw |-> FALSE]
          /\ UNCHANGED <<asyncProcessesRunning, timers>>
  /\ UNCHANGED <<vmAlive, errorState, lastError, pc, runResult,
                 timeoutFunctionHandles, intervalFunctionHandles, nextTimerId,
                 promiseId, openPromises, promises, pendingJobs, afterDispose>>
  /\ UNCHANGED notSandbox

\* ------------------------------------------------------------------------
\* Bridged promises: wrapPromise and rejectOpenPromises,
\* sync-request/index.ts:19-70.  promiseId and openPromises are module scope:
\* one table for every Context of the process.
\* ------------------------------------------------------------------------
\* wrapPromise up to its return: sync-request/index.ts:28-32, 56-58.
\* The script called a host function whose result is a promise.
WrapPromise(s) ==
  /\ pc[s] = "eval" /\ promiseId < MaxPromises
  /\ LET p == promiseId + 1 IN
     /\ promiseId' = p
     /\ asyncProcessesRunning' = beginAsyncProcess(s)
     /\ openPromises' = [openPromises EXCEPT ![p] = "open"]
     /\ promises' = [promises EXCEPT ![p] =
           [NoPromise EXCEPT !.owner = s, !.host = "pending", !.vm = "pending"]]
     /\ lastCall' = [fn |-> "asyncGlobal", threw |-> FALSE]
  /\ UNCHANGED <<vmAlive, errorState, lastError, pc, runResult, timers,
                 timeoutFunctionHandles, intervalFunctionHandles, nextTimerId,
                 pendingJobs, afterDispose>>
  /\ UNCHANGED notSandbox

\* the host promise settles (an event of the host, not code of the bridge)
HostPromiseSettles(p, how) ==
  /\ promises[p].host = "pending"
  /\ promises' = [promises EXCEPT ![p].host = how]
  /\ UNCHANGED <<vmAlive, asyncProcessesRunning, errorState, lastError, pc,
                 runResult, timers, timeoutFunctionHandles,
                 intervalFunctionHandles, nextTimerId, promiseId, openPromises,
                 pendingJobs, lastCall, afterDispose>>
  /\ UNCHANGED notSandbox

\* the vm deferred after resolve()/reject() is called on it: only the first
\* call settles it and queues the `settled` continuation and the script's jobs
SettleVm(pr, how) ==
  IF pr.vm = "pending"
  THEN [pr EXCEPT !.vm = how, !.settledCb = "queued", !.settleCalls = @ + 1]
  ELSE [pr EXCEPT !.settleCalls = @ + 1, !.lateSettles = @ + 1]

\* the .then continuation: sync-request/index.ts:34-42.
\* On a disposed Context marshaling raises and the continuation ends there.
PromiseThen(p) ==
  /\ promises[p].host = "resolved" /\ ~promises[p].thenRan /\ ~Evaluating
  /\ LET s == promises[p].owner
         pr == [promises[p] EXCEPT !.thenRan = TRUE, !.ends = @ + 1] IN
     /\ asyncProcessesRunning' = endAsyncProcess(asyncProcessesRunning, s)
     /\ IF vmAlive[s]
        THEN /\ promises' = [promises EXCEPT ![p] =
                   SettleVm([pr EXCEPT !.lateWraps =
                               IF pr.vm = "pending" THEN @ ELSE @ + 1], "resolved")]
             /\ openPromises' = [openPromises EXCEPT ![p] = "null"]
             /\ pendingJobs' = IF pr.vm = "pending"
                               THEN [pendingJobs EXCEPT ![s] = TRUE]
                               ELSE pendingJobs
             /\ UNCHANGED afterDispose
        ELSE /\ promises' = [promises EXCEPT ![p] = pr]
             /\ afterDispose' = [afterDispose EXCEPT ![s] = TRUE]
             /\ UNCHANGED <<openPromises, pendingJobs>>
  /\ UNCHANGED <<vmAlive, errorState, lastError, pc, runResult, timers,
                 timeoutFunctionHandles, intervalFunctionHandles, nextTimerId,
                 promiseId, lastCall>>
  /\ UNCHANGED notSandbox

\* the .catch continuation: sync-request/index.ts:43-50
PromiseCatch(p) ==
  /\ promises[p].host = "rejected" /\ ~promises[p].catchRan /\ ~Evaluating
  /\ LET s == promises[p].owner
         pr == [promises[p] EXCEPT !.catchRan = TRUE] IN
     IF vmAlive[s]
     THEN /\ promises' = [promises EXCEPT ![p] =
                SettleVm([pr EXCEPT !.lateWraps =
                            IF pr.vm = "pending" THEN @ ELSE @ + 1], "rejected")]
          /\ openPromises' = [openPromises EXCEPT ![p] = "null"]
          /\ pendingJobs' = IF pr.vm = "pending"
                            THEN [pendingJobs EXCEPT ![s] = TRUE]
                            ELSE pendingJobs
          /\ UNCHANGED afterDispose
     ELSE /\ promises' = [promises EXCEPT ![p] = pr]
          /\ afterDispose' = [afterDispose EXCEPT ![s] = TRUE]
          /\ UNCHANGED <<openPromises, pendingJobs>>
  /\ UNCHANGED <<vmAlive, asyncProcessesRunning, errorState, lastError, pc,
                 runResult, timers, timeoutFunctionHandles,
                 intervalFunctionHandles, nextTimerId, promiseId, lastCall>>
  /\ UNCHANGED notSandbox

\* the vmPromise.settled continuation without its executePendingJobs call
SettledThenWithoutDrain(p) ==
  /\ promises[p].settledCb = "queued" /\ ~Evaluating
  /\ LET s == promises[p].owner IN
     /\ asyncProcessesRunning' = endAsyncProcess(asyncProcessesRunning, s)
     /\ promises' = [promises EXCEPT ![p].settledCb = "ran", ![p].ends = @ + 1]
     /\ IF vmAlive[s]
        THEN UNCHANGED afterDispose
        ELSE afterDispose' = [afterDispose EXCEPT ![s] = TRUE]
  /\ UNCHANGED <<vmAlive, errorState, lastError, pc, runResult, timers,
                 timeoutFunctionHandles, intervalFunctionHandles, nextTimerId,
                 promiseId, openPromises, pendingJobs, lastCall>>
  /\ UNCHANGED notSandbox


\* the vmPromise.settled continuation: sync-request/index.ts:51-54
SettledThen(p) ==
  /\ promises[p].settledCb = "queued" /\ ~Evaluating
  /\ LET s == promises[p].owner IN
     /\ asyncProcessesRunning' = endAsyncProcess(asyncProcessesRunning, s)
     /\ promises' = [promises EXCEPT ![p].settledCb = "ran", ![p].ends = @ + 1]
     /\ IF vmAlive[s]
        THEN /\ pendingJobs' = [pendingJobs EXCEPT ![s] = FALSE]
             /\ UNCHANGED afterDispose
        ELSE /\ afterDispose' = [afterDispose EXCEPT ![s] = TRUE]
             /\ UNCHANGED pendingJobs
  /\ UNCHANGED <<vmAlive, errorState, lastError, pc, runResult, timers,
                 timeoutFunctionHandles, intervalFunctionHandles, nextTimerId,
                 promiseId, openPromises, lastCall>>
  /\ UNCHANGED notSandbox

\* rejectOpenPromises that rejects the open promises but neither clears their
\* table entries nor runs the pending jobs
RejectOpenPromisesNoCleanup(s) ==
  /\ vmAlive[s] /\ ~Evaluating
  /\ LET open == {p \in PromiseIds : openPromises[p] = "open"} IN
     /\ open # {}
     /\ promises' = [p \in PromiseIds |->
           IF p \in open
           THEN [SettleVm(promises[p], "rejected") EXCEPT !.forced = TRUE]
           ELSE promises[p]]
     /\ pendingJobs' = [pendingJobs EXCEPT ![s] = TRUE]
  /\ UNCHANGED <<vmAlive, asyncProcessesRunning, errorState, lastError, pc,
                 runResult, timers, timeoutFunctionHandles,
                 intervalFunctionHandles, nextTimerId, promiseId, openPromises,
                 lastCall, afterDispose>>
  /\ UNCHANGED notSandbox


\* rejectOpenPromises(vm), called by the owner of sandbox s with its vm:
\* sync-request/index.ts:61-70.  It walks the one table of the module.
RejectOpenPromises(s) ==
  /\ vmAlive[s] /\ ~Evaluating
  /\ LET open == {p \in PromiseIds : openPromises[p] = "open"} IN
     /\ promises' = [p \in PromiseIds |->
           IF p \in open
           THEN [SettleVm(promises[p], "rejected") EXCEPT !.forced = TRUE]
           ELSE promises[p]]
     /\ openPromises' = [p \in PromiseIds |->
           IF p \in open THEN "null" ELSE openPromises[p]]
     /\ afterDispose' = [t \in Sandboxes |->
           afterDispose[t] \/ \E p \in open : promises[p].owner = t /\ ~vmAlive[t]]
     /\ pendingJobs' = [t \in Sandboxes |->
           IF t = s THEN FALSE
           ELSE IF \E p \in open : promises[p].owner = t /\ vmAlive[t]
                THEN TRUE ELSE pendingJobs[t]]
  /\ UNCHANGED <<vmAlive, asyncProcessesRunning, errorState, lastError, pc,
                 runResult, timers, timeoutFunctionHandles,
                 intervalFunctionHandles, nextTimerId, promiseId, lastCall>>
  /\ UNCHANGED notSandbox

\* ------------------------------------------------------------------------
\* Specifications of the sandbox.  S is the set of sandboxes whose owner
\* and script act.
\* ------------------------------------------------------------------------
RunSteps(S) ==
  \/ \E s \in S : RunBegin(s)
  \/ \E s \in S, outcome \in {"value", "error"} : RunEnd(s, outcome)
  \/ \E s \in S : DisposeContext(s)

TimerSteps(S) ==
  \/ \E s \in S : SetTimeout(s)
  \/ \E id \in TimerIds : TimeoutFires(id)
  \/ \E s \in S, id \in ScriptIds : ClearTimeout(s, id)
  \/ \E s \in S : SetInterval(s)
  \/ \E id \in TimerIds : IntervalFires(id)
  \/ \E s \in S, id \in ScriptIds : ClearInterval(s, id)

ConsoleSteps(S) ==
  \/ \E s \in S, method \in ConsoleMethods \ {"error"} : ConsoleLog(s, method)
  \/ \E s \in S : ConsoleError(s)

PromiseSteps(S) ==
  \/ \E s \in S : WrapPromise(s)
  \/ \E p \in PromiseIds, how \in {"resolved", "rejected"} : HostPromiseSettles(p, how)
  \/ \E p \in PromiseIds : PromiseThen(p)
  \/ \E p \in PromiseIds : PromiseCatch(p)
  \/ \E p \in PromiseIds : SettledThen(p)
  \/ \E s \in S : RejectOpenPromises(s)

\* ------------------------------------------------------------------------
\* Value marshaling: wrap, wrapObject, wrapArray, sync-request/index.ts:72-154.
\* A host value is [t |-> kind, v |-> payload]; an object's payload is the
\* list of its enumerable properties [k |-> key, x |-> value], an array's the
\* list of its elements, a byte buffer's the list of its bytes.
\* ------------------------------------------------------------------------
\* longest array (and byte buffer) among the host values explored
MaxLen == 2

Null == [t |-> "null", v |-> ""]
Undefined == [t |-> "undefined", v |-> ""]
Atoms ==
  { Null, Undefined,
    [t |-> "boolean", v |-> "true"], [t |-> "boolean", v |-> "false"],
    [t |-> "number", v |-> "1"], [t |-> "bigint", v |-> "9007199254740993"],
    [t |-> "string", v |-> "s"] }
ByteBuffers == {[t |-> "bytes", v |-> b] : b \in UNION {[1..n -> {7}] : n \in 0..MaxLen}}
Leaves == Atoms \cup ByteBuffers
ArraysOf(S) == {[t |-> "array", v |-> a] : a \in UNION {[1..n -> S] : n \in 0..MaxLen}}
Prop(k, x) == [k |-> k, x |-> x]
ObjectsOf(S) ==
  {[t |-> "object", v |-> <<>>]}
  \cup {[t |-> "object", v |-> <<Prop("a", x)>>] : x \in S}
  \cup {[t |-> "object", v |-> <<Prop("a", x), Prop("b", y)>>] : x \in S, y \in S}
\* the supported host values explored: leaves, and arrays and objects of
\* leaves, of one-element arrays and of one-property objects
Inner ==
  {[t |-> "array", v |-> <<x>>] : x \in Atoms}
  \cup {[t |-> "object", v |-> <<Prop("a", x)>>] : x \in Atoms}
HostValues ==
  Leaves \cup ArraysOf(Leaves) \cup ObjectsOf(Leaves)
  \cup {[t |-> "array", v |-> <<x>>] : x \in Inner}
  \cup {[t |-> "object", v |-> <<Prop("a", x)>>] : x \in Inner}

\* what wrap hands back when it gives no handle (the host value null), and
\* the outcome of a marshal that raised a host exception
NoHandle == [t |-> "nohandle", v |-> ""]
Raised == [t |-> "raised", v |-> ""]

\* `for (const key in obj)` over a byte buffer walks its indices
BytesAsProps(b) == [i \in 1..Len(b) |-> Prop(i - 1, [t |-> "number", v |-> b[i]])]

RECURSIVE wrap(_)
\* wrapObject: sync-request/index.ts:110-135.  A property whose wrapped
\* value is the host null is not set.
wrapObject(obj) ==
  LET props == IF obj.t = "bytes" THEN BytesAsProps(obj.v)
               ELSE IF obj.t = "object" THEN obj.v ELSE <<>>
      w == [i \in 1..Len(props) |-> wrap(props[i].x)]
      kept == SelectSeq([i \in 1..Len(props) |-> Prop(props[i].k, w[i])],
                        LAMBDA p : p.x # NoHandle)
  IN IF \E i \in 1..Len(props) : w[i] = Raised
     THEN Raised
     ELSE [t |-> "object", v |-> kept]

\* wrapArray: sync-request/index.ts:137-154.  With the host null for an
\* element, setProp and wrappedValue.dispose() are applied to null and raise.
wrapArray(arr) ==
  LET w == [i \in 1..Len(arr.v) |-> wrap(arr.v[i])]
  IN IF \E i \in 1..Len(arr.v) : w[i] \in {Raised, NoHandle}
     THEN Raised
     ELSE [t |-> "array", v |-> w]

\* wrap: sync-request/index.ts:72-108 (promises are WrapPromise)
wrap(value) ==
  CASE value.t = "null" -> NoHandle
    [] value.t = "function" -> [t |-> "function", v |-> value.v]
    [] value.t = "array" -> wrapArray(value)
    [] value.t \in {"object", "bytes"} -> wrapObject(value)
    [] value.t \in {"string", "number", "bigint", "boolean"} -> value
    [] value.t = "undefined" -> Undefined
    [] OTHER -> NoHandle

\* vm.dump of a handle (used at sync-request/index.ts:164, sandbox.ts:81):
\* the interpreter value read back as the host value of the same kind;
\* without a handle there is nothing to dump
RECURSIVE dump(_)
dump(h) ==
  CASE h.t \in {"nohandle", "raised"} -> Raised
    [] h.t = "array" -> [t |-> "array", v |-> [i \in 1..Len(h.v) |-> dump(h.v[i])]]
    [] h.t = "object" ->
         [t |-> "object", v |-> [i \in 1..Len(h.v) |-> Prop(h.v[i].k, dump(h.v[i].x))]]
    [] OTHER -> h


NotYet == [t |-> "notyet", v |-> ""]

WrapIdle == hostValue = Undefined /\ wrapped = NotYet /\ dumped = NotYet
WrapInit == hostValue \in HostValues /\ wrapped = NotYet /\ dumped = NotYet

\* the host marshals hostValue into the Context
Marshal ==
  /\ wrapped = NotYet
  /\ wrapped' = wrap(hostValue)
  /\ UNCHANGED <<hostValue, dumped>>
  /\ UNCHANGED notWrap

\* the host reads the handle back
Unmarshal ==
  /\ wrapped # NotYet /\ dumped = NotYet
  /\ dumped' = dump(wrapped)
  /\ UNCHANGED <<hostValue, wrapped>>
  /\ UNCHANGED notWrap

\* ------------------------------------------------------------------------
\* Host functions handed to a script: wrapGenericFunction,
\* sync-request/index.ts:156-180.  What the host function does with a call
\* is the environment's choice: it throws, or it returns a host value.
\* ------------------------------------------------------------------------
GenericOutcomes ==
  {[kind |-> "throws", value |-> Undefined]}
  \cup {[kind |-> "returns", value |-> v] :
          v \in {Undefined, Null, [t |-> "number", v |-> "1"],
                 [t |-> "array", v |-> <<Null>>]}}

\* the function handed to vm.newFunction without its try/catch: an exception
\* of the host function or of wrap leaves the callback and is thrown into
\* the script
GenericCallWithoutCatch(s, outcome) ==
  /\ pc[s] = "eval"
  /\ LET wrappedResult == wrap(outcome.value)
         raised == outcome.kind = "throws" \/ wrappedResult = Raised IN
     /\ lastCall' = [fn |-> "generic", by |-> s, threw |-> raised,
                     hostThrew |-> outcome.kind = "throws",
                     result |-> IF raised \/ wrappedResult = NoHandle
                                THEN Undefined ELSE wrappedResult]
     /\ UNCHANGED hostLog
  /\ UNCHANGED <<vmAlive, asyncProcessesRunning, errorState, lastError, pc,
                 runResult, timers, timeoutFunctionHandles,
                 intervalFunctionHandles, nextTimerId, promiseId, openPromises,
                 promises, pendingJobs, afterDispose>>
  /\ UNCHANGED <<wrapVars, requireVars, rqVars, silent, rqSilent, platformVars, constructionVars, waitVars>>

\* the script calls a wrapped host function: sync-request/index.ts:163-178.
\* The catch branch logs and falls off the end of the callback, and a
\* callback that returns no handle gives the script undefined.
GenericCall(s, outcome) ==
  /\ pc[s] = "eval"
  /\ LET wrappedResult == wrap(outcome.value)
         raised == outcome.kind = "throws" \/ wrappedResult = Raised IN
     /\ lastCall' = [fn |-> "generic", by |-> s, threw |-> FALSE,
                     hostThrew |-> outcome.kind = "throws",
                     result |-> IF raised \/ wrappedResult = NoHandle
                                THEN Undefined ELSE wrappedResult]
     /\ hostLog' = IF raised THEN hostLog \cup {<<s, "wrapGenericFunction">>}
                   ELSE hostLog
  /\ UNCHANGED <<vmAlive, asyncProcessesRunning, errorState, lastError, pc,
                 runResult, timers, timeoutFunctionHandles,
                 intervalFunctionHandles, nextTimerId, promiseId, openPromises,
                 promises, pendingJobs, afterDispose>>
  /\ UNCHANGED <<wrapVars, requireVars, rqVars, silent, rqSilent, platformVars, constructionVars, waitVars>>


\* ------------------------------------------------------------------------
\* require(name): sandbox.ts:80-88.  requireLookup is the plain object the
\* host handed to createSandbox (default {}): reading requireLookup[name]
\* finds the own property name, and otherwise what a plain object inherits.
\* ------------------------------------------------------------------------

\* modules a host registers
Modules ==
  { [t |-> "object", v |-> <<Prop("version", [t |-> "number", v |-> "1"])>>],
    [t |-> "object", v |-> <<Prop("list", [t |-> "array", v |-> <<Null>>])>>],
    [t |-> "object", v |-> <<Prop("a", Null), Prop("b", Undefined)>>] }
\* the tables explored: "fs" and "util" are each registered or not
LookupTables ==
  {<<>>}
  \cup {<<Prop("fs", m)>> : m \in Modules}
  \cup {<<Prop("util", m)>> : m \in Modules}
  \cup {<<Prop("fs", m), Prop("util", n)>> : m \in Modules, n \in Modules}
\* names a script passes to require
ModuleNames == {"fs", "util", "os", "toString", "constructor"}
\* properties every plain object inherits (functions of Object.prototype)
InheritedNames == {"toString", "constructor", "valueOf", "hasOwnProperty"}

Registered(table, name) == \E i \in 1..Len(table) : table[i].k = name

\* table[name] in the host language
GetProp(table, name) ==
  IF Registered(table, name)
  THEN table[CHOOSE i \in 1..Len(table) : table[i].k = name].x
  ELSE IF name \in InheritedNames THEN [t |-> "function", v |-> name]
  ELSE Undefined

\* the truthiness test of `if (x)`
Truthy(x) ==
  CASE x.t \in {"null", "undefined"} -> FALSE
    [] x.t = "boolean" -> x.v = "true"
    [] x.t \in {"number", "bigint"} -> x.v # "0"
    [] x.t = "string" -> x.v # ""
    [] OTHER -> TRUE

\* the host function behind require: sandbox.ts:80-88.  A function has no
\* enumerable property, so wrapObject of one is an empty object.
requireHandle(table, name) ==
  IF Truthy(GetProp(table, name))
  THEN wrapObject(GetProp(table, name))
  ELSE Undefined

RequireIdle == requireLookup = <<>> /\ requireResult = NotYet
RequireInit == requireLookup \in LookupTables /\ requireResult = NotYet

\* the script calls require(name); an exception raised in the host function
\* is thrown into the script
Require(s, name) ==
  /\ pc[s] = "eval"
  /\ requireResult' = requireHandle(requireLookup, name)
  /\ lastCall' = [fn |-> "require", threw |-> requireResult' = Raised, name |-> name]
  /\ UNCHANGED <<vmAlive, asyncProcessesRunning, errorState, lastError, pc,
                 runResult, timers, timeoutFunctionHandles,
                 intervalFunctionHandles, nextTimerId, promiseId, openPromises,
                 promises, pendingJobs, afterDispose, requireLookup>>
  /\ UNCHANGED <<wrapVars, rqVars, consoleVars, platformVars, constructionVars, waitVars>>

\* ------------------------------------------------------------------------
\* The HTTP worker and the pink namespace: sandbox.ts:168-197 (worker),
\* runQuickJs.ts:27-126.
\* A request is what the script passes, [url, returnTextBody]; method,
\* headers and body are handed to the worker unchanged and decide nothing
\* here.  What the network does with one request is the environment's
\* choice net: the request promise settles at net.settlesAt ms (with the
\* response headers, or rejected when net.fail = "connect"), and reading the
\* body takes net.bodyTakes ms more (and fails when net.fail = "body").
\* ------------------------------------------------------------------------
\* runQuickJs.ts:56, in seconds
RequestTimeout == 10

Urls == {"u1", "u2"}
Requests == [url : Urls, returnTextBody : BOOLEAN]
NetBehaviours ==
  { [fail |-> "none", settlesAt |-> 100, bodyTakes |-> 100, status |-> 200],
    [fail |-> "none", settlesAt |-> 300, bodyTakes |-> 100, status |-> 404],
    [fail |-> "none", settlesAt |-> 10500, bodyTakes |-> 100, status |-> 200],
    [fail |-> "none", settlesAt |-> 100, bodyTakes |-> 10500, status |-> 200],
    [fail |-> "connect", settlesAt |-> 100, bodyTakes |-> 0, status |-> 0],
    [fail |-> "body", settlesAt |-> 100, bodyTakes |-> 100, status |-> 200] }

\* the text the server at url answers with
ServerBody(url) == url
\* error.message of the failure the network produced
ErrorMessage(net) == IF net.fail = "connect" THEN "ECONNREFUSED" ELSE "terminated"

\* the catch branch of the worker: sandbox.ts:188-195
IOError(message) ==
  [threw |-> FALSE, statusCode |-> 524, reasonPhrase |-> "IO Error", body |-> message]

\* the worker without its catch branch: a failure leaves the handler as an
\* exception
workerWithoutCatch(options, net) ==
  IF net.settlesAt >= options.timeout * 1000 \/ net.fail # "none"
  THEN [threw |-> TRUE]
  ELSE [threw |-> FALSE, statusCode |-> net.status, reasonPhrase |-> "status",
        body |-> ServerBody(options.url)]

\* the worker's handler: sandbox.ts:169-196.  Promise.race covers the
\* request promise only; res.body.text() is awaited after the race.
worker(options, net) ==
  IF net.settlesAt >= options.timeout * 1000
  THEN IOError("Timeout")
  ELSE IF net.fail # "none"
  THEN IOError(ErrorMessage(net))
  ELSE [threw |-> FALSE, statusCode |-> net.status, reasonPhrase |-> "status",
        body |-> ServerBody(options.url)]

\* how long the blocking call keeps the host: the worker answers when its
\* handler returns
Duration(options, net) ==
  IF net.settlesAt >= options.timeout * 1000 THEN options.timeout * 1000
  ELSE IF net.fail = "connect" THEN net.settlesAt
  ELSE net.settlesAt + net.bodyTakes

\* the options syncRequest hands to the worker: runQuickJs.ts:51-57
RequestOptions(args) == [url |-> args.url, timeout |-> RequestTimeout]

\* syncRequest: runQuickJs.ts:42-58 (sync-request/index.ts:8-15 blocks on the worker)
syncRequest(args, net) == worker(RequestOptions(args), net)

\* Response.body as the script sees it: runQuickJs.ts:69-74
BodyValue(asText, text) ==
  IF asText THEN [t |-> "string", v |-> text] ELSE [t |-> "bytes", v |-> text]

\* The handles a call of httpRequestHandle creates and what becomes of
\* each: runQuickJs.ts:66-77.  resHandle is the call's result, bodyHandle is
\* disposed at line 76, statusHandle has no dispose() call.
httpRequestHandles ==
  { [handle |-> "resHandle", fate |-> "returned"],
    [handle |-> "statusHandle", fate |-> "held"],
    [handle |-> "bodyHandle", fate |-> "disposed"] }

\* The handles a call of batchHttpRequestHandle creates: runQuickJs.ts:85-100.
\* responsesHandle is the call's result; per response resHandle is disposed
\* at line 98, statusHandle and bodyHandle have no dispose() call.
batchHttpRequestHandles(reqs) ==
  {[handle |-> "responsesHandle", fate |-> "returned"]}
  \cup (IF Len(reqs) = 0 THEN {}
        ELSE { [handle |-> "resHandle", fate |-> "disposed"],
               [handle |-> "statusHandle", fate |-> "held"],
               [handle |-> "bodyHandle", fate |-> "held"] })

\* the handles of a call that stay with the host when the call has ended
Held(handles) == {h \in handles : h.fate = "held"}

\* httpRequestHandle: runQuickJs.ts:63-78
httpRequestHandle(args, net) ==
  LET res == syncRequest(args, net) IN
  IF res.threw
  THEN [fn |-> "httpRequest", threw |-> TRUE]
  ELSE [fn |-> "httpRequest", threw |-> FALSE, args |-> args, net |-> net,
        statusCode |-> res.statusCode,
        body |-> BodyValue(args.returnTextBody, res.body),
        handles |-> httpRequestHandles]

\* the requests issued together and their responses collected as they arrive
BatchResponsesByArrival(reqs, nets) ==
  LET order == SortSeq([i \in 1..Len(reqs) |-> i],
                       LAMBDA a, b : Duration(RequestOptions(reqs[a]), nets[a])
                                     < Duration(RequestOptions(reqs[b]), nets[b]))
  IN [i \in 1..Len(reqs) |-> syncRequest(reqs[order[i]], nets[order[i]])]

\* nativeArgs.map(syncRequest): runQuickJs.ts:84.  Each call blocks the host
\* until its worker answered, so request i is complete before i+1 is sent.
BatchResponses(reqs, nets) ==
  [i \in 1..Len(reqs) |-> syncRequest(reqs[i], nets[i])]

RECURSIVE SentAt(_, _, _)
\* the time request i of the batch is handed to the worker
SentAt(reqs, nets, i) ==
  IF i = 1 THEN 0
  ELSE SentAt(reqs, nets, i - 1) + Duration(RequestOptions(reqs[i - 1]), nets[i - 1])

\* the network events of one batch, in the order the host produces them
BatchLog(reqs, nets) ==
  [k \in 1..(2 * Len(reqs)) |->
     LET i == (k + 1) \div 2 IN
     IF k % 2 = 1
     THEN [ev |-> "send", i |-> i, at |-> SentAt(reqs, nets, i)]
     ELSE [ev |-> "recv", i |-> i,
           at |-> SentAt(reqs, nets, i) + Duration(RequestOptions(reqs[i]), nets[i])]]

\* batchHttpRequestHandle: runQuickJs.ts:80-102.  nativeArgs is the array,
\* so nativeArgs.returnTextBody is undefined and every body is a byte buffer.
batchHttpRequestHandle(reqs, nets) ==
  LET responses == BatchResponses(reqs, nets) IN
  IF \E i \in 1..Len(reqs) : responses[i].threw
  THEN [fn |-> "batchHttpRequest", threw |-> TRUE]
  ELSE [fn |-> "batchHttpRequest", threw |-> FALSE, reqs |-> reqs, nets |-> nets,
        log |-> BatchLog(reqs, nets),
        handles |-> batchHttpRequestHandles(reqs),
        responses |-> [i \in 1..Len(reqs) |->
                         [statusCode |-> responses[i].statusCode,
                          body |-> BodyValue(FALSE, responses[i].body)]]]

Algorithms == {"blake2b128", "blake2b256", "sha256", "keccak256"}
\* algorithm names a script passes
AlgorithmNames == Algorithms \cup {"md5", "SHA256", ""}
\* messages a script passes: a string, or a byte buffer (dumped as an object)
Messages == {[t |-> "string", v |-> "abc"], [t |-> "bytes", v |-> <<97, 98, 99>>]}

\* a digest: the function, the message and the number of bytes kept
Digest(fn, message, bytes) == [threw |-> FALSE, fn |-> fn, of |-> message, bytes |-> bytes]

\* hash with a default branch that returns an empty digest
hashWithoutThrow(algorithm, message) ==
  CASE algorithm = "blake2b128" -> Digest("blake2b", message, 16)
    [] algorithm = "blake2b256" -> Digest("blake2b", message, 32)
    [] algorithm = "sha256" -> Digest("sha256", message, 32)
    [] algorithm = "keccak256" -> Digest("keccak256", message, 32)
    [] OTHER -> Digest("none", message, 0)

\* hash: runQuickJs.ts:27-40
hash(algorithm, message) ==
  CASE algorithm = "blake2b128" -> Digest("blake2b", message, 16)
    [] algorithm = "blake2b256" -> Digest("blake2b", message, 32)
    [] algorithm = "sha256" -> Digest("sha256", message, 32)
    [] algorithm = "keccak256" -> Digest("keccak256", message, 32)
    [] OTHER -> [threw |-> TRUE, message |-> "not supported algorithm"]

\* hashHandle: runQuickJs.ts:115-126.  An exception of the host function is
\* thrown into the script.
hashHandle(algorithm, message) ==
  LET digest == hash(algorithm, message.v) IN
  IF digest.threw
  THEN [fn |-> "hash", threw |-> TRUE, algorithm |-> algorithm]
  ELSE [fn |-> "hash", threw |-> FALSE, algorithm |-> algorithm, value |-> digest]

\* ------------------------------------------------------------------------
\* runQuickJs: runQuickJs.ts:244-288, called once per MessageQueued event by
\* watch.ts:60-71.  After `await getQuickJS()` the function is synchronous:
\* one call at a time is between the creation of its Context and its return.
\* ------------------------------------------------------------------------
\* runQuickJs calls that may be in flight together
MaxCalls == 2
\* runQuickJs calls made over a behaviour
MaxRuns == 3
\* longest request list handed to pink.batchHttpRequest
MaxBatch == 2

Calls == 1..MaxCalls
RuntimeIds == 1..MaxRuns


NoResources == [uses |-> 0, runtime |-> 0, context |-> 0, arena |-> 0]
NoResult == [kind |-> "none"]
NoPink == [fn |-> "none", threw |-> FALSE]

\* The handles createSandbox creates for injection and whether it has
\* called dispose() on each when it returns: sandbox.ts:35-117.  The five
\* console functions are created whatever options.silent is (lines 38-67) and
\* disposed in the else branch only (lines 104-108); the silent branch makes
\* and disposes one function of its own (lines 91-97).
createSandboxHandles(silentOption) ==
  { [handle |-> "consoleHandle", disposed |-> TRUE],
    [handle |-> "exportsHandle", disposed |-> TRUE],
    [handle |-> "requireHandle", disposed |-> TRUE],
    [handle |-> "globalObj", disposed |-> TRUE] }
  \cup { [handle |-> h, disposed |-> ~silentOption] :
           h \in {"logHandle", "infoHandle", "warnHandle", "debugHandle", "errorHandle"} }
  \cup (IF silentOption THEN {[handle |-> "handle", disposed |-> TRUE]} ELSE {})

\* options.silent is false unless the caller asks for it: sandbox.ts:12,
\* runQuickJs.ts:247
ConsoleIdle ==
  /\ silent = [s \in Sandboxes |-> FALSE]
  /\ rqSilent = [c \in Calls |-> FALSE]
  /\ hostLog = {}
  /\ injected = [s \in Sandboxes |-> createSandboxHandles(silent[s])]
\* the embedder's choice of options.silent, the same for each of its calls
ConsoleInit ==
  /\ \E option \in BOOLEAN : silent = [s \in Sandboxes |-> option]
  /\ \E option \in BOOLEAN : rqSilent = [c \in Calls |-> option]
  /\ hostLog = {}
  /\ injected = [s \in Sandboxes |-> createSandboxHandles(silent[s])]

RqInit ==
  /\ rqPc = [c \in Calls |-> "idle"]
  /\ rqRuntime = [c \in Calls |-> 0]
  /\ resources = [r \in RuntimeIds |-> NoResources]
  /\ nextRuntime = 1
  /\ started = 0
  /\ rqResult = [c \in Calls |-> NoResult]
  /\ pinkResult = NoPink
  /\ scriptOutput = Undefined

\* values a script throws
ThrownValues ==
  { [t |-> "error", name |-> "Error", v |-> "boom"],
    [t |-> "error", name |-> "ValidationError", v |-> "bad input"],
    [t |-> "string", v |-> "boom"],
    [t |-> "number", v |-> "1"],
    Null, Undefined }
\* values a script assigns to scriptOutput
OutputValues == {[t |-> "number", v |-> "42"], [t |-> "string", v |-> "foobar"]}

\* a caller (a watch event) calls runQuickJs: up to the await, runQuickJs.ts:249
CallRunQuickJs(c) ==
  /\ rqPc[c] \in {"idle", "returned", "threw"} /\ started < MaxRuns
  /\ started' = started + 1
  /\ rqPc' = [rqPc EXCEPT ![c] = "awaiting"]
  /\ rqRuntime' = [rqRuntime EXCEPT ![c] = 0]
  /\ rqResult' = [rqResult EXCEPT ![c] = NoResult]
  /\ UNCHANGED <<resources, nextRuntime, pinkResult, scriptOutput>>
  /\ UNCHANGED notRunQuickJs

\* runQuickJs.ts:250-270: a new runtime, Context and arena, the polyfills,
\* scriptArgs; then evalCode is entered
CreateContext(c) ==
  /\ rqPc[c] = "awaiting" /\ \A d \in Calls : rqPc[d] # "eval"
  /\ resources' = [resources EXCEPT ![nextRuntime].uses = @ + 1]
  /\ rqRuntime' = [rqRuntime EXCEPT ![c] = nextRuntime]
  /\ nextRuntime' = nextRuntime + 1
  /\ rqPc' = [rqPc EXCEPT ![c] = "eval"]
  /\ pinkResult' = NoPink
  /\ scriptOutput' = Undefined
  /\ UNCHANGED <<started, rqResult>>
  /\ UNCHANGED notRunQuickJs

\* the script assigns scriptOutput
ScriptAssignsOutput(c, v) ==
  /\ rqPc[c] = "eval"
  /\ scriptOutput' = v
  /\ UNCHANGED <<rqPc, rqRuntime, resources, nextRuntime, started, rqResult,
                 pinkResult>>
  /\ UNCHANGED notRunQuickJs

\* the script calls pink.httpRequest(args)
PinkHttpRequest(c, args, net) ==
  /\ rqPc[c] = "eval" /\ pinkResult = NoPink
  /\ pinkResult' = httpRequestHandle(args, net)
  /\ UNCHANGED <<rqPc, rqRuntime, resources, nextRuntime, started, rqResult,
                 scriptOutput>>
  /\ UNCHANGED notRunQuickJs

\* the script calls pink.batchHttpRequest(reqs)
PinkBatchHttpRequest(c, reqs, nets) ==
  /\ rqPc[c] = "eval" /\ pinkResult = NoPink
  /\ pinkResult' = batchHttpRequestHandle(reqs, nets)
  /\ UNCHANGED <<rqPc, rqRuntime, resources, nextRuntime, started, rqResult,
                 scriptOutput>>
  /\ UNCHANGED notRunQuickJs

\* the script calls pink.hash(algorithm, message)
PinkHash(c, algorithm, message) ==
  /\ rqPc[c] = "eval" /\ pinkResult = NoPink
  /\ pinkResult' = hashHandle(algorithm, message)
  /\ UNCHANGED <<rqPc, rqRuntime, resources, nextRuntime, started, rqResult,
                 scriptOutput>>
  /\ UNCHANGED notRunQuickJs

\* the script calls a console method: polyfillConsole, runQuickJs.ts:140-180,
\* or the one empty function of polyfillSilentConsole, runQuickJs.ts:229-242
RqConsole(c, method) ==
  /\ rqPc[c] = "eval" /\ method \in ConsoleMethods
  /\ hostLog' = IF rqSilent[c] THEN hostLog ELSE hostLog \cup {<<"runQuickJs", "console">>}
  /\ pinkResult' = [fn |-> "console", threw |-> FALSE, method |-> method]
  /\ UNCHANGED <<rqPc, rqRuntime, resources, nextRuntime, started, rqResult,
                 scriptOutput>>
  /\ UNCHANGED <<sandboxVars, wrapVars, requireVars, silent, rqSilent, platformVars, constructionVars, waitVars>>

\* the script has used the result of its last pink call and goes on (the
\* model keeps one result at a time)
ScriptUsesResult(c) ==
  /\ rqPc[c] = "eval" /\ pinkResult # NoPink
  /\ pinkResult' = NoPink
  /\ UNCHANGED <<rqPc, rqRuntime, resources, nextRuntime, started, rqResult,
                 scriptOutput>>
  /\ UNCHANGED notRunQuickJs

\* arena.dispose(); context.dispose(); runtime.dispose()
DisposeAll(res, r) ==
  [res EXCEPT ![r].arena = @ + 1, ![r].context = @ + 1, ![r].runtime = @ + 1]

\* context.dump(result.error): an error object dumps to {name, message, stack}
DumpError(v) ==
  IF v.t = "error"
  THEN [t |-> "object", v |-> <<Prop("name", [t |-> "string", v |-> v.name]),
                               Prop("message", [t |-> "string", v |-> v.v])>>]
  ELSE v

\* d.message in the host language; reading a property of null or undefined
\* raises a TypeError
MessageOf(d) ==
  CASE d.t \in {"null", "undefined"} -> Raised
    [] d.t = "object" /\ \E i \in 1..Len(d.v) : d.v[i].k = "message" ->
         d.v[CHOOSE i \in 1..Len(d.v) : d.v[i].k = "message"].x
    [] OTHER -> Undefined

\* the message of the host error that line 278 throws: new Error(m) has the
\* message "" for an undefined m
ThrownMessage(v) ==
  LET m == MessageOf(DumpError(v)) IN
  CASE m = Raised -> "Cannot read properties of null or undefined"
    [] m = Undefined -> ""
    [] OTHER -> m.v

\* the error path without its dispose() calls
EvalThrowsWithoutDispose(c, v) ==
  /\ rqPc[c] = "eval"
  /\ rqResult' = [rqResult EXCEPT ![c] =
        [kind |-> "threw", thrown |-> v, message |-> ThrownMessage(v)]]
  /\ rqPc' = [rqPc EXCEPT ![c] = "threw"]
  /\ pinkResult' = NoPink
  /\ scriptOutput' = Undefined
  /\ UNCHANGED <<rqRuntime, resources, nextRuntime, started>>
  /\ UNCHANGED notRunQuickJs

\* evaluation ended with the script throwing v: runQuickJs.ts:271-279
EvalThrows(c, v) ==
  /\ rqPc[c] = "eval"
  /\ resources' = DisposeAll(resources, rqRuntime[c])
  /\ rqResult' = [rqResult EXCEPT ![c] =
        [kind |-> "threw", thrown |-> v, message |-> ThrownMessage(v)]]
  /\ rqPc' = [rqPc EXCEPT ![c] = "threw"]
  /\ pinkResult' = NoPink
  /\ scriptOutput' = Undefined
  /\ UNCHANGED <<rqRuntime, nextRuntime, started>>
  /\ UNCHANGED notRunQuickJs

\* evaluation ended normally: runQuickJs.ts:280-287
EvalReturns(c) ==
  /\ rqPc[c] = "eval"
  /\ resources' = DisposeAll(resources, rqRuntime[c])
  /\ rqResult' = [rqResult EXCEPT ![c] = [kind |-> "returned", output |-> dump(scriptOutput)]]
  /\ rqPc' = [rqPc EXCEPT ![c] = "returned"]
  /\ pinkResult' = NoPink
  /\ scriptOutput' = Undefined
  /\ UNCHANGED <<rqRuntime, nextRuntime, started>>
  /\ UNCHANGED notRunQuickJs

RequestLists == UNION {[1..n -> Requests] : n \in 0..MaxBatch}
\* what the network does to the requests of a batch: answers of different
\* latency and a refused connection
BatchNetBehaviours ==
  {net \in NetBehaviours :
     net.settlesAt + net.bodyTakes < RequestTimeout * 1000 /\ net.fail # "body"}

LifecycleSteps(C) ==
  \/ \E c \in C : CallRunQuickJs(c)
  \/ \E c \in C : CreateContext(c)
  \/ \E c \in C, v \in OutputValues : ScriptAssignsOutput(c, v)
  \/ \E c \in C, v \in ThrownValues : EvalThrows(c, v)
  \/ \E c \in C : EvalReturns(c)

RqConsoleSteps(C) == \E c \in C, method \in ConsoleMethods : RqConsole(c, method)

PinkSteps(C) ==
  \/ \E c \in C, args \in Requests, net \in NetBehaviours : PinkHttpRequest(c, args, net)
  \/ \E c \in C, reqs \in RequestLists :
       \E nets \in [1..Len(reqs) -> BatchNetBehaviours] : PinkBatchHttpRequest(c, reqs, nets)
  \/ \E c \in C, algorithm \in AlgorithmNames, message \in Messages :
       PinkHash(c, algorithm, message)
  \/ \E c \in C : ScriptUsesResult(c)

\* ------------------------------------------------------------------------
\* waitPRuntimeFinalized: utils.ts:12-42, called by add-evm-account.ts:75-87.
\* The chain produces blocks while the call waits; what the awaitable and
\* the predicate do is the environment's choice.
\* ------------------------------------------------------------------------
\* utils.ts:14
confirmations == 10
\* blocks the chain produces over a behaviour
MaxBlocks == 12

NoPoll == [exceeded |-> FALSE, evaluated |-> FALSE, predicateResult |-> FALSE]
NoWait == [pc |-> "idle", predicate |-> FALSE, initBlockNum |-> 0,
           lastPoll |-> NoPoll, outcome |-> "none"]

WaitIdle == blocknum = 0 /\ wait = NoWait

\* the chain produces a block
BlockProduced ==
  /\ blocknum < MaxBlocks
  /\ blocknum' = blocknum + 1
  /\ UNCHANGED wait
  /\ UNCHANGED <<sandboxVars, wrapVars, requireVars, rqVars, consoleVars,
                 platformVars, constructionVars>>

\* a caller calls waitPRuntimeFinalized(awaitable, predicate?) while the
\* chain still has more than confirmations blocks to produce
CallWait(withPredicate) ==
  /\ wait.pc = "idle" /\ blocknum + confirmations < MaxBlocks
  /\ wait' = [wait EXCEPT !.pc = "getInfo", !.predicate = withPredicate]
  /\ UNCHANGED blocknum
  /\ UNCHANGED <<sandboxVars, wrapVars, requireVars, rqVars, consoleVars,
                 platformVars, constructionVars>>

\* utils.ts:21: the first getInfo answers
ReadInitBlockNum ==
  /\ wait.pc = "getInfo"
  /\ wait' = [wait EXCEPT !.pc = "awaiting", !.initBlockNum = blocknum]
  /\ UNCHANGED blocknum
  /\ UNCHANGED <<sandboxVars, wrapVars, requireVars, rqVars, consoleVars,
                 platformVars, constructionVars>>

\* utils.ts:22: the awaitable settles; its rejection leaves the function
AwaitableSettles(how) ==
  /\ wait.pc = "awaiting"
  /\ wait' = IF how = "resolved"
             THEN [wait EXCEPT !.pc = "poll"]
             ELSE [wait EXCEPT !.pc = "threw", !.outcome = "awaitable"]
  /\ UNCHANGED blocknum
  /\ UNCHANGED <<sandboxVars, wrapVars, requireVars, rqVars, consoleVars,
                 platformVars, constructionVars>>

\* one turn of the loop that asks the predicate before it looks at the block
\* number
PollPredicateFirst(predicateResult) ==
  /\ wait.pc = "poll"
  /\ LET exceeded == blocknum > wait.initBlockNum + confirmations IN
     wait' =
       IF wait.predicate /\ predicateResult
       THEN [wait EXCEPT !.pc = "returned", !.outcome = "result",
                         !.lastPoll = [exceeded |-> exceeded, evaluated |-> TRUE,
                                       predicateResult |-> TRUE]]
       ELSE IF exceeded
       THEN [wait EXCEPT !.pc = IF wait.predicate THEN "threw" ELSE "returned",
                         !.outcome = IF wait.predicate THEN "timeout" ELSE "result",
                         !.lastPoll = [exceeded |-> TRUE, evaluated |-> wait.predicate,
                                       predicateResult |-> FALSE]]
       ELSE [wait EXCEPT !.pc = "sleep",
                         !.lastPoll = [exceeded |-> FALSE, evaluated |-> wait.predicate,
                                       predicateResult |-> FALSE]]
  /\ UNCHANGED blocknum
  /\ UNCHANGED <<sandboxVars, wrapVars, requireVars, rqVars, consoleVars,
                 platformVars, constructionVars>>

\* one turn of the loop: utils.ts:24-38.  predicateResult is what the
\* predicate answers if it is asked.
Poll(predicateResult) ==
  /\ wait.pc = "poll"
  /\ LET exceeded == blocknum > wait.initBlockNum + confirmations IN
     wait' =
       IF exceeded
       THEN [wait EXCEPT !.pc = IF wait.predicate THEN "threw" ELSE "returned",
                         !.outcome = IF wait.predicate THEN "timeout" ELSE "result",
                         !.lastPoll = [exceeded |-> TRUE, evaluated |-> FALSE,
                                       predicateResult |-> FALSE]]
       ELSE IF wait.predicate
       THEN [wait EXCEPT !.pc = IF predicateResult THEN "returned" ELSE "sleep",
                         !.outcome = IF predicateResult THEN "result" ELSE "none",
                         !.lastPoll = [exceeded |-> FALSE, evaluated |-> TRUE,
                                       predicateResult |-> predicateResult]]
       ELSE [wait EXCEPT !.pc = "sleep", !.lastPoll = NoPoll]
  /\ UNCHANGED blocknum
  /\ UNCHANGED <<sandboxVars, wrapVars, requireVars, rqVars, consoleVars,
                 platformVars, constructionVars>>

\* utils.ts:39: the polling interval has passed
WakeUp ==
  /\ wait.pc = "sleep"
  /\ wait' = [wait EXCEPT !.pc = "poll"]
  /\ UNCHANGED blocknum
  /\ UNCHANGED <<sandboxVars, wrapVars, requireVars, rqVars, consoleVars,
                 platformVars, constructionVars>>


vars == <<sandboxVars, wrapVars, requireVars, rqVars, consoleVars, platformVars, constructionVars, waitVars>>

\* ------------------------------------------------------------------------
\* Properties
\* ------------------------------------------------------------------------
\* a timer or a bridged promise started by the script of s is unsettled
PendingAsync(s) ==
  \/ \E id \in TimerIds : timers[id].owner = s /\ timers[id].scheduled
  \/ \E p \in PromiseIds : promises[p].owner = s /\ promises[p].vm = "pending"

\* C1: the entry point does not hand its result back to the caller while a
\* timer or bridged promise started by the script is unsettled: whenever
\* run() returns, nothing of that sandbox is pending.
C1_NoReturnWhilePending ==
  [][\A s \in Sandboxes :
       (pc[s] = "eval" /\ pc'[s] = "idle") => ~PendingAsync(s)']_vars

\* C2: once a Context is disposed, no host timer callback calls into it.
C2_NoCallbackAfterDispose == \A s \in Sandboxes : ~afterDispose[s]

\* id is a timeout (an interval) of s that the host will still fire
PendingTimeout(s, id) ==
  id \in TimerIds /\ timers[id].kind = "timeout" /\ timers[id].owner = s
  /\ timers[id].scheduled
PendingInterval(s, id) ==
  id \in TimerIds /\ timers[id].kind = "interval" /\ timers[id].owner = s
  /\ timers[id].scheduled

\* C3: clearTimeout(id) or clearInterval(id) on an id that is not pending
\* (cleared before, fired, or never issued) changes nothing: the counter and
\* the timers with their handles stay as they are and no error is raised.
C3_CancellationIdempotent ==
  [][\A s \in Sandboxes, id \in ScriptIds :
       (\/ ClearTimeout(s, id) /\ ~PendingTimeout(s, id)
        \/ ClearInterval(s, id) /\ ~PendingInterval(s, id))
       => (/\ asyncProcessesRunning' = asyncProcessesRunning
           /\ timers' = timers
           /\ ~lastCall'.threw)]_vars

\* the request got no response before the request timeout
TimedOut(net) == net.settlesAt >= RequestTimeout * 1000

\* C4: pink.httpRequest returns a Response for every outcome of the request
\* and never throws; when the request failed or timed out the Response has
\* statusCode 524 and the error message as its body.
C4_HttpRequestNeverThrows ==
  pinkResult.fn = "httpRequest" =>
    /\ ~pinkResult.threw
    /\ TimedOut(pinkResult.net) =>
         pinkResult.statusCode = 524 /\ pinkResult.body.v = "Timeout"
    /\ (~TimedOut(pinkResult.net) /\ pinkResult.net.fail # "none") =>
         /\ pinkResult.statusCode = 524
         /\ pinkResult.body.v = ErrorMessage(pinkResult.net)
    /\ (~TimedOut(pinkResult.net) /\ pinkResult.net.fail = "none") =>
         pinkResult.statusCode = pinkResult.net.status

\* C4 witness: a request that failed on the network came back as a 524 Response
C4_Witness ==
  /\ pinkResult.fn = "httpRequest" /\ ~pinkResult.threw
  /\ pinkResult.net.fail = "connect"
  /\ pinkResult.statusCode = 524 /\ pinkResult.body.v = "ECONNREFUSED"

StringForm(v) ==
  CASE v.t = "null" -> "null"
    [] v.t = "undefined" -> "undefined"
    [] OTHER -> v.v

\* C6: when the script throws v, runQuickJs throws a host error whose
\* message is the string form of v.
C6_ThrowsStringForm ==
  \A c \in Calls :
    rqResult[c].kind = "threw" => rqResult[c].message = StringForm(rqResult[c].thrown)

\* C7: every runQuickJs call has a runtime, Context and arena of its own,
\* not disposed while the script runs, and each disposed exactly once when
\* the call has returned or thrown.
C7_FreshAndDisposedOnce ==
  /\ \A r \in RuntimeIds : resources[r].uses <= 1
  /\ \A c, d \in Calls :
       (c # d /\ rqRuntime[c] # 0 /\ rqRuntime[d] # 0) => rqRuntime[c] # rqRuntime[d]
  /\ \A c \in Calls :
       rqPc[c] = "eval" =>
         resources[rqRuntime[c]] = [NoResources EXCEPT !.uses = 1]
  /\ \A c \in Calls :
       rqPc[c] \in {"returned", "threw"} =>
         resources[rqRuntime[c]] =
           [uses |-> 1, runtime |-> 1, context |-> 1, arena |-> 1]

\* C7 witness: one call has returned and another has thrown
C7_Witness ==
  \E c, d \in Calls :
    /\ rqPc[c] = "returned" /\ rqPc[d] = "threw"
    /\ resources[rqRuntime[c]].context = 1 /\ resources[rqRuntime[d]].context = 1

\* C8: dumping the handle that wrap produced for a supported host value
\* gives back that value.
C8_RoundTrip == dumped # NotYet => dumped = hostValue

\* C9: pink.hash throws into the script for an algorithm name outside the
\* supported set, and returns a digest without throwing for one inside.
C9_HashThrowsOnUnknown ==
  pinkResult.fn = "hash" =>
    /\ pinkResult.algorithm \notin Algorithms => pinkResult.threw
    /\ pinkResult.algorithm \in Algorithms =>
         /\ ~pinkResult.threw
         /\ pinkResult.value.fn # "none"
         /\ pinkResult.value.bytes =
              (IF pinkResult.algorithm = "blake2b128" THEN 16 ELSE 32)

\* C9 witness: the script called pink.hash with an unsupported name
C9_Witness ==
  pinkResult.fn = "hash" /\ pinkResult.algorithm = "md5" /\ pinkResult.threw

\* C10: require(name) never throws; it returns the marshaled module for a
\* registered name and undefined for every other name.
C10_RequireNeverThrows ==
  lastCall.fn = "require" =>
    /\ ~lastCall.threw
    /\ Registered(requireLookup, lastCall.name) =>
         requireResult = wrapObject(GetProp(requireLookup, lastCall.name))
    /\ ~Registered(requireLookup, lastCall.name) => requireResult = Undefined

\* the type Response.body has for a request with this flag
BodyTypeFor(request) == IF request.returnTextBody THEN "string" ELSE "bytes"

\* C11: Response.body is a string when the request that produced it has
\* returnTextBody true and a byte buffer otherwise, for pink.httpRequest and
\* for every entry of pink.batchHttpRequest.
C11_BodyTypeFollowsFlag ==
  /\ (pinkResult.fn = "httpRequest" /\ ~pinkResult.threw) =>
       pinkResult.body.t = BodyTypeFor(pinkResult.args)
  /\ (pinkResult.fn = "batchHttpRequest" /\ ~pinkResult.threw) =>
       \A i \in 1..Len(pinkResult.reqs) :
         pinkResult.responses[i].body.t = BodyTypeFor(pinkResult.reqs[i])

\* C12: a run whose evaluation did not throw returns the success result,
\* whether or not the script called console.error.
C12_ConsoleErrorNotFailure ==
  [][\A s \in Sandboxes : RunEnd(s, "value") => runResult'[s] = "true"]_vars

\* C13: with options.silent no console method writes to the host console or
\* touches the last-error string and the error-state flag.
C13_SilentConsoleNoOp ==
  /\ \A s \in Sandboxes :
       silent[s] =>
         /\ <<s, "console">> \notin hostLog
         /\ lastError[s] = "" /\ ~errorState[s]
  /\ (\A c \in Calls : rqPc[c] # "idle" => rqSilent[c]) =>
       <<"runQuickJs", "console">> \notin hostLog

\* C13 witness: the script of a silent sandbox has just called console.error
C13_Witness ==
  \E s \in Sandboxes :
    /\ silent[s] /\ pc[s] = "eval"
    /\ lastCall.fn = "console" /\ lastCall.method = "error"


\* C14: the callback of one setInterval is invoked at most 99 times; the
\* host interval is then cancelled and the counter decremented once for it.
C14_IntervalCappedAt99 ==
  /\ \A id \in TimerIds :
       timers[id].kind = "interval" => timers[id].calls <= maxRepetitions
  /\ \A s \in Sandboxes :
       asyncProcessesRunning[s] =
         Cardinality({id \in TimerIds : timers[id].owner = s /\ timers[id].scheduled})


\* the pending operations of sandbox t and its counter
PendingView(t) ==
  <<{p \in PromiseIds : promises[p].owner = t /\ promises[p].vm = "pending"},
    {p \in PromiseIds : promises[p].owner = t /\ openPromises[p] = "open"},
    {id \in TimerIds : timers[id].owner = t /\ timers[id].scheduled},
    asyncProcessesRunning[t]>>

\* an operation on sandbox s: by its script or by its owner
OperationOn(s) ==
  \/ WrapPromise(s) \/ RejectOpenPromises(s)
  \/ SetTimeout(s) \/ SetInterval(s)
  \/ \E id \in ScriptIds : ClearTimeout(s, id) \/ ClearInterval(s, id)
  \/ \E p \in PromiseIds :
       promises[p].owner = s /\ (PromiseThen(p) \/ PromiseCatch(p) \/ SettledThen(p))

\* C15: no operation on one sandbox changes the pending operations or the
\* counter of another sandbox that is alive at the same time.
C15_BookkeepingPerContext ==
  [][\A s, t \in Sandboxes :
       (s # t /\ OperationOn(s)) => PendingView(t)' = PendingView(t)]_vars

\* the vm promise is settled and every continuation that follows has run
FullySettled(p) ==
  /\ promises[p].vm \in {"resolved", "rejected"}
  /\ promises[p].settledCb = "ran"
  /\ promises[p].host = "resolved" => promises[p].thenRan
  /\ promises[p].host = "rejected" => promises[p].catchRan

\* C16: a bridged promise increments the counter once when it is created and
\* decrements it once when it settles, by resolution, rejection or forced
\* rejection; with no continuation waiting and no timer pending the counter
\* of a live sandbox is the number of its unsettled promises.
C16_OneDecrementPerPromise ==
  /\ \A p \in PromiseIds :
       /\ promises[p].ends <= 1
       /\ FullySettled(p) => promises[p].ends = 1
  /\ ~MicrotaskQueued =>
       \A s \in Sandboxes :
         (/\ vmAlive[s]
          /\ \A id \in TimerIds : ~(timers[id].owner = s /\ timers[id].scheduled)) =>
           asyncProcessesRunning[s] =
             Cardinality({p \in PromiseIds :
                            promises[p].owner = s /\ promises[p].vm = "pending"})

\* C17: when isAsyncProcessRunning() of a live sandbox is false no bridged
\* promise of the sandbox is unsettled and none of its timers is scheduled.
C17_IdleMeansNothingPending ==
  \A s \in Sandboxes :
    (vmAlive[s] /\ ~isAsyncProcessRunning(s)) => ~PendingAsync(s)

\* C18: rejectOpenPromises rejects every bridged promise that is unsettled,
\* leaves no open entry in the table and has drained the job queue of its
\* Context when it returns.
C18_RejectOpenPromisesRejectsAll ==
  [][\A s \in Sandboxes :
       RejectOpenPromises(s) =>
         /\ \A p \in PromiseIds :
              (promises[p].owner = s /\ promises[p].vm = "pending") =>
                promises'[p].vm = "rejected" /\ promises'[p].forced
         /\ \A p \in PromiseIds : openPromises'[p] # "open"
         /\ ~pendingJobs'[s]]_vars

\* C18 witness: two unsettled promises were force-rejected by one call
C18_Witness ==
  \E p, q \in PromiseIds :
    /\ p # q /\ promises[p].forced /\ promises[q].forced
    /\ promises[p].vm = "rejected" /\ promises[q].vm = "rejected"
    /\ promises[p].host = "pending" /\ promises[q].host = "pending"
    /\ openPromises[p] = "null" /\ openPromises[q] = "null"

\* C19: a bridged promise is settled in the interpreter at most once, and
\* after its forced rejection a settlement of the host promise marshals
\* nothing and calls neither resolve nor reject.
C19_SettledOnceAndQuietAfterForce ==
  \A p \in PromiseIds :
    /\ promises[p].settleCalls - promises[p].lateSettles <= 1
    /\ promises[p].forced => promises[p].lateWraps = 0 /\ promises[p].lateSettles = 0


\* C20: clearTimeout(id) with the id of a timeout that is still pending
\* cancels the host timer, disposes the held callback handle once and
\* decrements the counter once.
C20_ClearTimeoutCancels ==
  [][\A s \in Sandboxes, id \in TimerIds :
       (ClearTimeout(s, id) /\ PendingTimeout(s, id)) =>
         /\ ~timers'[id].scheduled
         /\ timers'[id].disposeCalls = 1
         /\ asyncProcessesRunning' = endAsyncProcess(asyncProcessesRunning, s)
         /\ ~lastCall'.threw]_vars


\* C21: clearInterval(id) with the id of an interval that has not cancelled
\* itself, before its first firing or after any number of firings, stops the
\* interval, disposes the held callback handle once, decrements the counter
\* once and raises no error.  Stated for a host whose timer ids are numbers,
\* where the table's key is the id the script holds.
C21_ClearIntervalCancels ==
  [][\A s \in Sandboxes, id \in TimerIds :
       (ClearInterval(s, id) /\ PendingInterval(s, id) /\ ~timeoutIDIsObject) =>
         /\ ~timers'[id].scheduled
         /\ timers'[id].disposeCalls = 1
         /\ asyncProcessesRunning' = endAsyncProcess(asyncProcessesRunning, s)
         /\ ~lastCall'.threw]_vars


\* the host callbacks that end with vm.runtime.executePendingJobs()
DrainingCallbackOf(s) ==
  \/ \E id \in TimerIds : timers[id].owner = s /\ (TimeoutFires(id) \/ IntervalFires(id))
  \/ \E p \in PromiseIds : promises[p].owner = s /\ SettledThen(p)
  \/ RejectOpenPromises(s)

EntersContext(s) ==
  \/ pc[s] # "eval" /\ pc'[s] = "eval"
  \/ \E id \in TimerIds : timers[id].owner = s /\ timers'[id].calls > timers[id].calls
  \/ \E p \in PromiseIds :
       promises[p].owner = s /\ promises[p].settledCb # "ran" /\ promises'[p].settledCb = "ran"
  \/ pendingJobs[s] /\ ~pendingJobs'[s]

C24_NoHandleHeldAtDispose ==
  (pinkResult.fn \in {"httpRequest", "batchHttpRequest"} /\ ~pinkResult.threw) =>
    Held(pinkResult.handles) = {}


\* C25: when createSandbox has returned, it has disposed every handle it
\* created for injection, with options.silent as well as without.
C25_InjectionHandlesDisposed ==
  \A s \in Sandboxes : \A h \in injected[s] : h.disposed


\* C26: the callback handle held for a timer is disposed once over the
\* timer's lifetime: never twice, and once when the timer has ended (a
\* timeout fired, the timer was cleared, an interval cancelled itself).
C26_HandleDisposedOnce ==
  \A id \in TimerIds :
    /\ timers[id].disposeCalls <= 1
    /\ (timers[id].kind # "none" /\ ~timers[id].scheduled /\ vmAlive[timers[id].owner])
         => timers[id].disposeCalls = 1


\* C27: when the host function behind a wrapped function throws during a
\* call from the script, the host logs the exception, nothing is thrown into
\* the script and the call returns undefined.
C27_GenericThrowIsSwallowed ==
  (lastCall.fn = "generic" /\ lastCall.hostThrew) =>
    /\ ~lastCall.threw
    /\ lastCall.result = Undefined
    /\ <<lastCall.by, "wrapGenericFunction">> \in hostLog

\* C27 witness: the last call of the script was to a wrapped host function
\* that threw
C27_Witness == lastCall.fn = "generic" /\ lastCall.hostThrew


\* the network has not delivered the complete response (headers and body)
\* of a request within the request timeout
CompleteAfterTimeout(net) ==
  net.fail = "none" /\ net.settlesAt + net.bodyTakes >= RequestTimeout * 1000

\* C28: a call whose complete response (headers and body) is not there when
\* the 10-second timeout elapses ends with the 524 response carrying the
\* timeout message, not with a later successful response.
C28_TimeoutBoundsWholeCall ==
  (pinkResult.fn = "httpRequest" /\ ~pinkResult.threw
     /\ CompleteAfterTimeout(pinkResult.net)) =>
    /\ pinkResult.statusCode = 524
    /\ pinkResult.body.v = "Timeout"


\* C29: run() returns false when evaluation gave an error and when a host
\* exception was caught, it resets errorState when it starts, and a run in
\* which the script called nothing returns true whatever console.error did
\* in an earlier run.
C29_RunReturnsAndResets ==
  [][\A s \in Sandboxes :
       /\ RunBegin(s) => ~errorState'[s]
       /\ RunEnd(s, "error") => runResult'[s] = "false"
       /\ RunOnDisposed(s) => runResult'[s] = "false" /\ ~errorState'[s]
       /\ (RunEnd(s, "value") /\ lastCall = NoCall) => runResult'[s] = "true"]_vars

\* C29 witness: console.error set the flag in an earlier run, which returned
\* false and printed the program, and a later run without calls returned true
C29_Witness ==
  \E s \in Sandboxes :
    /\ lastError[s] # "" /\ <<s, "run">> \in hostLog
    /\ pc[s] = "idle" /\ lastCall = NoCall /\ runResult[s] = "true"


\* the call is in its loop
Polling == wait.pc \in {"poll", "sleep"}

\* the call has ended
WaitDone == wait.pc \in {"returned", "threw"}

Init == SandboxInit /\ WrapIdle /\ RequireIdle /\ RqInit /\ ConsoleIdle /\ WaitIdle

\* one sandbox, its owner and its script, and the host's timers
Next == RunSteps({"A"}) \/ TimerSteps({"A"})
Spec == Init /\ [][Next]_vars

\* a script that calls require, over every lookup table
RequireNext ==
  \/ RunSteps({"A"})
  \/ \E name \in ModuleNames : Require("A", name)
InitRequire == SandboxInit /\ WrapIdle /\ RequireInit /\ RqInit /\ ConsoleIdle /\ WaitIdle
SpecRequire == InitRequire /\ [][RequireNext]_vars

\* one marshal and unmarshal of every host value
WrapNext == Marshal \/ Unmarshal
InitWrap == SandboxInit /\ WrapInit /\ RequireIdle /\ RqInit /\ ConsoleIdle /\ WaitIdle
SpecWrap == InitWrap /\ [][WrapNext]_vars

\* runQuickJs calls in flight together
RunQuickJsNext == LifecycleSteps(Calls)
SpecRunQuickJs == Init /\ [][RunQuickJsNext]_vars

\* one runQuickJs call at a time whose script uses the pink namespace
PinkNext == LifecycleSteps({1}) \/ PinkSteps({1})
SpecPink == Init /\ [][PinkNext]_vars
\* a sandbox and a runQuickJs call whose scripts use the console, with and
\* without options.silent
ConsoleNext ==
  \/ \E outcome \in {"value", "error"} : RunBegin("A") \/ RunEnd("A", outcome)
  \/ ConsoleSteps({"A"})
  \/ CallRunQuickJs(1) \/ CreateContext(1) \/ EvalReturns(1)
  \/ RqConsoleSteps({1}) \/ ScriptUsesResult(1)
InitConsole == SandboxInit /\ WrapIdle /\ RequireIdle /\ RqInit /\ ConsoleInit /\ WaitIdle
SpecConsole == InitConsole /\ [][ConsoleNext]_vars
\* one sandbox whose script sets intervals that the host lets fire until the
\* callback cancels them
IntervalNext ==
  \/ \E outcome \in {"value", "error"} : RunBegin("A") \/ RunEnd("A", outcome)
  \/ SetInterval("A")
  \/ \E id \in TimerIds : IntervalFiresUpTo(id, maxRepetitions + 2)
SpecInterval == Init /\ [][IntervalNext]_vars
\* one sandbox whose script starts bridged promises; its owner may force
\* their rejection
PromiseNext == RunSteps({"A"}) \/ PromiseSteps({"A"})
SpecPromise == Init /\ [][PromiseNext]_vars

\* two sandboxes of one process, each with bridged promises
TwoSandboxesNext == RunSteps(Sandboxes) \/ PromiseSteps(Sandboxes)
SpecTwoSandboxes == Init /\ [][TwoSandboxesNext]_vars

\* timers and bridged promises one script starts in the specification below
MaxAsync == 3
AsyncStarted == (nextTimerId - 1) + promiseId

\* one sandbox whose script starts timers, bridged promises and promise jobs
\* of its own in one run; the host fires, settles and pumps
JobsNext ==
  \/ (runResult["A"] = "none" /\ RunBegin("A")) \/ RunEnd("A", "value")
  \/ ScriptQueuesJob("A")
  \/ (AsyncStarted < MaxAsync /\ SetTimeout("A"))
  \/ (AsyncStarted < MaxAsync /\ SetInterval("A"))
  \/ (AsyncStarted < MaxAsync /\ WrapPromise("A"))
  \/ \E id \in TimerIds : TimeoutFires(id) \/ IntervalFires(id)
  \/ \E p \in PromiseIds, how \in {"resolved", "rejected"} : HostPromiseSettles(p, how)
  \/ \E p \in PromiseIds : PromiseThen(p) \/ PromiseCatch(p) \/ SettledThen(p)
  \/ RejectOpenPromises("A")
SpecJobs == Init /\ [][JobsNext]_vars

\* two sandboxes whose scripts call wrapped host functions
GenericNext ==
  \/ RunSteps(Sandboxes)
  \/ \E s \in Sandboxes, outcome \in GenericOutcomes : GenericCall(s, outcome)
SpecGeneric == Init /\ [][GenericNext]_vars

\* one sandbox that is run again and again, with and without options.silent,
\* also after its Context was disposed; its script uses the console
RunAgainNext ==
  \/ RunSteps({"A"})
  \/ RunOnDisposed("A")
  \/ ConsoleSteps({"A"})
SpecRunAgain == InitConsole /\ [][RunAgainNext]_vars

\* one waitPRuntimeFinalized call on a chain that keeps producing blocks;
\* getInfo, the sleep and the predicate always answer
WaitNext ==
  \/ BlockProduced
  \/ \E withPredicate \in BOOLEAN : CallWait(withPredicate)
  \/ ReadInitBlockNum
  \/ \E how \in {"resolved", "rejected"} : AwaitableSettles(how)
  \/ \E predicateResult \in BOOLEAN : Poll(predicateResult)
  \/ WakeUp
SpecWait ==
  /\ Init /\ [][WaitNext]_vars
  /\ WF_vars(BlockProduced)
  /\ WF_vars(\E predicateResult \in BOOLEAN : Poll(predicateResult))
  /\ WF_vars(WakeUp)
====
